---------------------------- MODULE Spec2Model ----------------------------
(***************************************************************************)
(* A model of singleplatform.py: the SinglePlatformLocationAPI client.     *)
(*                                                                         *)
(* A Python str is a sequence of one-character strings, a Python bytes is  *)
(* a sequence of numbers in 0..255, and a Python dict is a sequence of     *)
(* <<key, value>> pairs in insertion order.  A decoded JSON object is a    *)
(* TLA+ record, so that DOMAIN gives the keys it has.                      *)
(***************************************************************************)
EXTENDS Integers, Sequences, FiniteSets, TLC

VARIABLES clients, ctor, pending, calls, requests, last, sigres, probe, probeOut

vars ==
  << clients, ctor, pending, calls, requests, last, sigres, probe, probeOut >>

-----------------------------------------------------------------------------
(* Bounds of the model.                                                    *)

\* How many public calls one behaviour makes.
MaxCalls == 2

\* How many nodes a hierarchy tree of the unofficial endpoint has at most.
MaxNodes == 5

\* The calls of a behaviour in which one call is watched.
MaxWatched == 3

-----------------------------------------------------------------------------
(* Characters, str and bytes.                                              *)

\* The printable ASCII characters, code points 32..126 in order (the grave
\* accent, code 96, is spelled out: the lexer does not take it in a string).
Ascii ==
  << " ", "!", "\"", "#", "$", "%", "&", "'", "(", ")", "*", "+", ",", "-",
     ".", "/", "0", "1", "2", "3", "4", "5", "6", "7", "8", "9", ":", ";",
     "<", "=", ">", "?", "@", "A", "B", "C", "D", "E", "F", "G", "H", "I",
     "J", "K", "L", "M", "N", "O", "P", "Q", "R", "S", "T", "U", "V", "W",
     "X", "Y", "Z", "[", "\\", "]", "^", "_", "grave", "a", "b", "c", "d", "e",
     "f", "g", "h", "i", "j", "k", "l", "m", "n", "o", "p", "q", "r", "s",
     "t", "u", "v", "w", "x", "y", "z", "{", "|", "}", "~" >>

\* The code point of every character, as a table.
CodePoints ==
  [ch \in {Ascii[i] : i \in 1..Len(Ascii)} |->
     31 + (CHOOSE i \in 1..Len(Ascii) : Ascii[i] = ch)]

Ord(ch) == CodePoints[ch]

Chr(b) == Ascii[b - 31]

\* str.encode(): UTF-8, one byte per ASCII character.
Encode(s) == [i \in 1..Len(s) |-> Ord(s[i])]

Digits == << "0", "1", "2", "3", "4", "5", "6", "7", "8", "9" >>

RECURSIVE StrNat(_)
StrNat(n) == IF n < 10 THEN << Digits[n + 1] >>
             ELSE StrNat(n \div 10) \o << Digits[(n % 10) + 1] >>

\* str(n) of an int.
StrInt(n) == IF n < 0 THEN << "-" >> \o StrNat(0 - n) ELSE StrNat(n)

RECURSIVE Concat(_)
\* The concatenation of a sequence of sequences.
Concat(ss) == IF ss = << >> THEN << >> ELSE Head(ss) \o Concat(Tail(ss))

RECURSIVE Join(_, _)
\* sep.join(ss)
Join(sep, ss) == IF ss = << >> THEN << >>
                 ELSE IF Len(ss) = 1 THEN ss[1]
                 ELSE ss[1] \o sep \o Join(sep, Tail(ss))

-----------------------------------------------------------------------------
(* urllib.parse.quote_plus and urlencode, base64.b64encode, hmac.          *)

HexDigits ==
  << "0", "1", "2", "3", "4", "5", "6", "7", "8", "9", "A", "B", "C", "D",
     "E", "F" >>

\* The bytes quote() never escapes: letters, digits and "_.-~".
AlwaysSafe(b) ==
  \/ b \in 48..57
  \/ b \in 65..90
  \/ b \in 97..122
  \/ b \in {45, 46, 95, 126}

\* quote_plus of one byte: a safe byte stays, a space becomes "+", any other
\* byte becomes "%XX".
QuoteByte(b) ==
  IF AlwaysSafe(b) THEN << Chr(b) >>
  ELSE IF b = 32 THEN << "+" >>
  ELSE << "%", HexDigits[(b \div 16) + 1], HexDigits[(b % 16) + 1] >>

\* quote_plus(b) of a bytes b.
quote_plus(b) == Concat([i \in 1..Len(b) |-> QuoteByte(b[i])])

\* The values a parameter dict holds: a str, an int or a bytes.
PyStr(s) == [type |-> "str", value |-> s]

PyInt(n) == [type |-> "int", value |-> n]

PyBytes(b) == [type |-> "bytes", value |-> b]

\* str(v)
Str(v) == IF v.type = "int" THEN StrInt(v.value) ELSE v.value

\* urlencode quotes a bytes as it is, and anything else through str().
QuoteVia(v) == IF v.type = "bytes" THEN quote_plus(v.value)
               ELSE quote_plus(Encode(Str(v)))

\* urlencode(params) of a dict: "k=v" of every item in the dict's order,
\* joined by "&".
urlencode(params) ==
  Join(<< "&" >>,
       [i \in 1..Len(params) |->
          QuoteVia(PyStr(params[i][1])) \o << "=" >> \o QuoteVia(params[i][2])])

B64Alphabet ==
  << "A", "B", "C", "D", "E", "F", "G", "H", "I", "J", "K", "L", "M", "N",
     "O", "P", "Q", "R", "S", "T", "U", "V", "W", "X", "Y", "Z", "a", "b",
     "c", "d", "e", "f", "g", "h", "i", "j", "k", "l", "m", "n", "o", "p",
     "q", "r", "s", "t", "u", "v", "w", "x", "y", "z", "0", "1", "2", "3",
     "4", "5", "6", "7", "8", "9", "+", "/" >>

B64(n) == Ord(B64Alphabet[n + 1])

RECURSIVE b64encode(_)
\* base64.b64encode(b): a bytes; three bytes give four characters, and the
\* last group is padded with "=".
b64encode(b) ==
  IF b = << >> THEN << >>
  ELSE IF Len(b) = 1
    THEN << B64(b[1] \div 4), B64((b[1] % 4) * 16), Ord("="), Ord("=") >>
  ELSE IF Len(b) = 2
    THEN << B64(b[1] \div 4), B64((b[1] % 4) * 16 + (b[2] \div 16)),
            B64((b[2] % 16) * 4), Ord("=") >>
  ELSE << B64(b[1] \div 4), B64((b[1] % 4) * 16 + (b[2] \div 16)),
          B64((b[2] % 16) * 4 + (b[3] \div 64)), B64(b[3] % 64) >>
       \o b64encode(SubSeq(b, 4, Len(b)))

RECURSIVE Weigh(_, _, _)
\* The weighted sum of the bytes b[lo..hi], each byte weighted by its place.
Weigh(b, lo, hi) ==
  IF lo > hi THEN 0
  ELSE IF lo = hi THEN (b[lo] + 1) * (((2 * lo + 1) * (2 * lo + 1)) % 251)
  ELSE LET mid == (lo + hi) \div 2
       IN  (Weigh(b, lo, mid) + Weigh(b, mid + 1, hi)) % 65536

\* hmac.new(key, msg, hashlib.sha1).digest().  The class relies on nothing
\* of SHA-1 but that the digest is a function of the key bytes and of the
\* message bytes, so the digest stands as a keyed checksum of two bytes:
\* the key is mixed in before and after the message, as HMAC's inner and
\* outer pass do.
HmacSha1Digest(key, msg) ==
  LET k     == Weigh(key, 1, Len(key))
      inner == (Weigh(msg, 1, Len(msg)) + k * 7919) % 65536
      outer == (inner * 31 + k) % 65536
  IN  << outer \div 256, outer % 256 >>

-----------------------------------------------------------------------------
(* Dicts in insertion order.                                               *)

HasKey(d, k) == \E i \in 1..Len(d) : d[i][1] = k

\* d[k] = v: a key the dict has keeps its place, a new key goes last.
SetItem(d, k, v) ==
  IF HasKey(d, k)
    THEN [i \in 1..Len(d) |-> IF d[i][1] = k THEN << k, v >> ELSE d[i]]
    ELSE Append(d, << k, v >>)

GetItem(d, k) == d[CHOOSE i \in 1..Len(d) : d[i][1] = k][2]

-----------------------------------------------------------------------------
(* The string literals of the class.                                       *)

_HOST ==
  << "h", "t", "t", "p", "s", ":", "/", "/", "p", "u", "b", "l", "i", "s",
     "h", "i", "n", "g", "-", "a", "p", "i", ".", "s", "i", "n", "g", "l",
     "e", "p", "l", "a", "t", "f", "o", "r", "m", ".", "c", "o", "m" >>

HIERARCHY_URL ==
  << "h", "t", "t", "p", "s", ":", "/", "/", "m", "y", "2", ".", "s", "i",
     "n", "g", "l", "e", "p", "l", "a", "t", "f", "o", "r", "m", ".", "c",
     "o", "m", "/", "h", "i", "e", "r", "a", "r", "c", "h", "y", "/", "l",
     "i", "s", "t", "/", "b", "u", "s", "i", "n", "e", "s", "s", "/" >>

LOCATIONS == << "/", "l", "o", "c", "a", "t", "i", "o", "n", "s", "/" >>

ALL == << "a", "l", "l", "/" >>

MENUS == << "m", "e", "n", "u", "s", "/" >>

PHOTOS == << "p", "h", "o", "t", "o", "s", "/" >>

CLIENT == << "c", "l", "i", "e", "n", "t" >>

FORMAT == << "f", "o", "r", "m", "a", "t" >>

SHORT == << "s", "h", "o", "r", "t" >>

HEIGHT == << "h", "e", "i", "g", "h", "t" >>

WIDTH == << "w", "i", "d", "t", "h" >>

TYPE == << "t", "y", "p", "e" >>

SIGNATURE == << "s", "i", "g", "n", "a", "t", "u", "r", "e" >>

\* SinglePlatformImageType: the members' values.
SinglePlatformImageType ==
  [ INTERIOR |-> << "i", "n", "t", "e", "r", "i", "o", "r" >>,
    EXTERIOR |-> << "e", "x", "t", "e", "r", "i", "o", "r" >>,
    ITEM |-> << "i", "t", "e", "m" >>,
    LOGO |-> << "l", "o", "g", "o" >>,
    UNCATEGORIZED |->
      << "u", "n", "c", "a", "t", "e", "g", "o", "r", "i", "z", "e", "d" >> ]

-----------------------------------------------------------------------------
(* Decoded JSON and the hierarchy trees.                                   *)

\* {}: the dict with no key.
EmptyDict == [k \in {} |-> 0]

\* d.get(k, default) of a decoded JSON object.
DictGet(d, k, default) == IF k \in DOMAIN d THEN d[k] ELSE default

NodeTypes == {"location", "tier"}

\* A node of the hierarchy with no child list, and one with a child list.
\* A node's id is its place in the tree: the child indices from the root.
Leaf(t, p) == [node_type |-> t, id |-> p]

Tier(t, p, kids) == [node_type |-> t, id |-> p, nodes |-> kids]

RECURSIVE Trees(_, _), Forests(_, _, _)
\* The trees of exactly n nodes whose root has place p.
Trees(n, p) ==
  IF n = 1 THEN {Leaf(t, p) : t \in NodeTypes}
  ELSE {Tier(t, p, kids) : t \in NodeTypes, kids \in Forests(n - 1, p, 1)}

\* The child lists of m nodes in all, the first child having index k.
Forests(m, p, k) ==
  IF m = 0 THEN {<< >>}
  ELSE UNION {{<< tr >> \o rest : tr \in Trees(sz, p \o << k >>),
                                 rest \in Forests(m - sz, p, k + 1)}
              : sz \in 1..m}

\* What the hierarchy endpoint may answer: a tree under "root_tier", an
\* object without "root_tier", an empty root, a root with an empty child
\* list and a root that has children but no node_type.
HierarchyDocs ==
  {[root_tier |-> tr] : tr \in UNION {Trees(n, << >>) : n \in 1..MaxNodes}}
    \cup {EmptyDict,
          [root_tier |-> EmptyDict],
          [root_tier |-> Tier("tier", << >>, << >>)],
          [root_tier |-> [nodes |-> << Leaf("location", << 1 >>),
                                       Leaf("tier", << 2 >>) >>]]}

RECURSIVE JoinText(_)
\* ", ".join(ts) of a sequence of texts.
JoinText(ts) ==
  IF ts = << >> THEN ""
  ELSE IF Len(ts) = 1 THEN ts[1]
  ELSE ts[1] \o ", " \o JoinText(Tail(ts))

RECURSIVE DumpsNode(_)
\* json.dumps of a node: the text the server sends for it.
DumpsNode(n) ==
  "{" \o JoinText(
           (IF "node_type" \in DOMAIN n
              THEN << "\"node_type\": \"" \o n.node_type \o "\"" >> ELSE << >>)
           \o (IF "id" \in DOMAIN n
                 THEN << "\"id\": ["
                         \o JoinText([i \in 1..Len(n.id) |-> ToString(n.id[i])])
                         \o "]" >>
                 ELSE << >>)
           \o (IF "nodes" \in DOMAIN n
                 THEN << "\"nodes\": ["
                         \o JoinText([i \in 1..Len(n.nodes) |-> DumpsNode(n.nodes[i])])
                         \o "]" >>
                 ELSE << >>))
      \o "}"

DumpsHierarchy(d) ==
  IF "root_tier" \in DOMAIN d
    THEN "{\"root_tier\": " \o DumpsNode(d.root_tier) \o "}"
    ELSE "{}"

\* The JSON texts of the model with the object each decodes to.
VendorBodies ==
  {[text |-> "{\"name\": \"Nobu\"}", doc |-> [name |-> "Nobu"]],
   [text |-> "{\"error\": \"unknown location\"}",
    doc |-> [error |-> "unknown location"]]}

JsonBodies ==
  VendorBodies \cup {[text |-> DumpsHierarchy(d), doc |-> d] : d \in HierarchyDocs}

\* A body that is no JSON: what a proxy in front of the API answers.
NonJsonTexts == {"<html>Bad Gateway</html>"}

IsJson(text) == \E b \in JsonBodies : b.text = text

\* json.loads(text) of a JSON text.
loads(text) == (CHOOSE b \in JsonBodies : b.text = text).doc

-----------------------------------------------------------------------------
(* HTTP.                                                                   *)

\* What the vendor's API may answer: any status with a JSON body, and a
\* body that is no JSON with a good or a bad status.
VendorResponses ==
  {[status_code |-> st, text |-> b.text]
     : st \in {200, 201, 404, 500}, b \in VendorBodies}
    \cup {[status_code |-> st, text |-> t]
            : st \in {200, 502}, t \in NonJsonTexts}

\* What the hierarchy endpoint may answer: a hierarchy document with status
\* 200, an empty object with status 500, and what the vendor's API may.
HierarchyResponses ==
  {[status_code |-> 200, text |-> DumpsHierarchy(d)] : d \in HierarchyDocs}
    \cup {[status_code |-> 500, text |-> "{}"]}
    \cup VendorResponses

\* How a call ends.
Return(v) == [kind |-> "return", value |-> v]

Raise(exc, msg) == [kind |-> "raise", exc |-> exc, message |-> msg]

\* response.json(): the decoded body, or the decoder's error.
json(response) ==
  IF IsJson(response.text) THEN Return(loads(response.text))
  ELSE Raise("JSONDecodeError", "Expecting value: line 1 column 1 (char 0)")

\* requests.get(url, headers=headers): the one request it sends.
get(url, headers) == << [method |-> "GET", url |-> url, headers |-> headers] >>

-----------------------------------------------------------------------------
(* The arguments the calls are made with.                                  *)

Clients == {1, 2}

ClientIds == {<< "c", "1" >>, << "a", "&", "b", " ", "=" >>}

Secrets == {<< "k", "1" >>, << "k", "2" >>}

LocationIds == {<< "n", "o", "b", "u" >>, << "x", "?", "y" >>}

BusinessIds == {<< "4", "2" >>}

Cookies == {<< "s", "e", "s", "s", "i", "o", "n", "i", "d", "=", "1" >>}

COOKIE == << "C", "o", "o", "k", "i", "e" >>

PyNone == [type |-> "NoneType"]

\* A member of the enum SinglePlatformImageType, and its .value.
Member(name) == [type |-> "SinglePlatformImageType", name |-> name]

EnumValue(m) == SinglePlatformImageType[m.name]

\* bool(v): None and 0 are false; a member of an enum is true.
Truthy(v) ==
  CASE v.type = "NoneType" -> FALSE
    [] v.type = "int" -> v.value # 0
    [] v.type = "str" -> v.value # << >>
    [] OTHER -> TRUE

\* max_height and max_width: None or an int; image_type: None or a member.
Sizes == {PyNone, PyInt(0), PyInt(64)}

ImageTypes == {PyNone, Member("INTERIOR"), Member("LOGO")}

\* The uris _generate_signature is called with on its own.
SigUris ==
  {LOCATIONS \o << "n", "o", "b", "u", "/", "?", "c", "l", "i", "e", "n", "t", "=", "c", "1" >>,
   LOCATIONS \o << "n", "o", "b", "u", "/", "m", "e", "n", "u", "s", "/", "?", "c", "l", "i", "e", "n", "t", "=", "c", "1", "&", "f", "o", "r", "m", "a", "t", "=", "s", "h", "o", "r", "t" >>}

-----------------------------------------------------------------------------
(* SinglePlatformLocationAPI.                                              *)

\* __init__
NewClient(client_id, client_secret) ==
  [_client_id |-> client_id, _client_secret |-> client_secret]

\* _generate_signature with the client's id mixed into the key.
_generate_signature_keyed_by_id(self, uri) ==
  LET key  == Encode(clients[self]._client_id \o clients[self]._client_secret)
      path == Encode(uri)
      data == HmacSha1Digest(key, path)
  IN  b64encode(data)

_generate_signature(self, uri) ==
  LET key  == Encode(clients[self]._client_secret)
      path == Encode(uri)
      data == HmacSha1Digest(key, path)
  IN  b64encode(data)

\* _generate_url that signs the path without the query.
_generate_url_signing_path(self, path, params) ==
  LET uri    == path
      signed == SetItem(params, SIGNATURE, PyBytes(_generate_signature(self, uri)))
      url    == _HOST \o path \o << "?" >> \o urlencode(signed)
  IN  [uri |-> uri, params |-> signed, url |-> url]

\* _generate_url returns the url; the record also shows the uri it signs and
\* the dict of its caller as it leaves it, with the signature set in it.
_generate_url(self, path, params) ==
  LET uri    == path \o << "?" >> \o urlencode(params)
      signed == SetItem(params, SIGNATURE, PyBytes(_generate_signature(self, uri)))
      url    == _HOST \o path \o << "?" >> \o urlencode(signed)
  IN  [uri |-> uri, params |-> signed, url |-> url]

RECURSIVE _recurse_locations_through(_)
\* _recurse_locations that does not stop at a location: it goes on into the
\* location's own children.
_recurse_locations_through(parent) ==
  LET nodes == DictGet(parent, "nodes", << >>)
      below == Concat([i \in 1..Len(nodes) |->
                         _recurse_locations_through(nodes[i])])
  IN  IF DictGet(parent, "node_type", "None") = "location"
        THEN << parent >> \o below
        ELSE below

RECURSIVE _recurse_locations(_)
_recurse_locations(parent) ==
  IF DictGet(parent, "node_type", "None") = "location" THEN << parent >>
  ELSE LET nodes == DictGet(parent, "nodes", << >>)
       IN  Concat([i \in 1..Len(nodes) |-> _recurse_locations(nodes[i])])

\* One dict kept between the calls: it still holds what the call before
\* left in it.
SharedParams(self) ==
  SetItem(IF last.op \in {"summary", "menu", "photos"} THEN last.params ELSE << >>,
          CLIENT, PyStr(clients[self]._client_id))

\* The dict each of summary, menu and photos starts from.
NewParams(self) == << << CLIENT, PyStr(clients[self]._client_id) >> >>

\* The end of a call that takes every 2xx status for a success.
Reply_any_2xx(response) ==
  IF response.status_code \in 200..299 THEN json(response)
  ELSE Raise("ValueError", response.text)

\* The end of summary, menu and photos: the decoded body of a 200, and a
\* ValueError of the body's text otherwise.
Reply(response) ==
  IF response.status_code = 200 THEN json(response)
  ELSE Raise("ValueError", response.text)

\* What a call did: its arguments, the path and the dict it gave to
\* _generate_url, what _generate_url made of them, the requests it sent, the
\* response it got and how it ended.
Done(op, self, args, path, params, gen, sent, response, outcome) ==
  [op |-> op, self |-> self, args |-> args, path |-> path,
   params_in |-> params, uri |-> gen.uri, params |-> gen.params,
   url |-> gen.url, sent |-> sent, response |-> response, outcome |-> outcome]

Unsigned == [uri |-> << >>, params |-> << >>, url |-> << >>]

managed_locations(self, business_id, cookie, response) ==
  LET url     == HIERARCHY_URL \o business_id \o << "/" >>
      headers == << << COOKIE, PyStr(cookie) >> >>
      sent    == get(url, headers)
      body    == json(response)
      outcome == IF body.kind = "raise" THEN body
                 ELSE Return(_recurse_locations(
                                DictGet(body.value, "root_tier", EmptyDict)))
  IN  Done("managed_locations", self,
           [business_id |-> business_id, cookie |-> cookie],
           << >>, << >>, Unsigned, sent, response, outcome)

\* summary with the flag the wrong way round.
summary_flag_inverted(self, location_id, complete, response) ==
  LET flag   == IF complete THEN << >> ELSE ALL
      path   == LOCATIONS \o location_id \o << "/" >> \o flag
      params == NewParams(self)
      gen    == _generate_url(self, path, params)
  IN  Done("summary", self,
           [location_id |-> location_id, complete |-> complete],
           path, params, gen, get(gen.url, << >>), response, Reply(response))

summary(self, location_id, complete, response) ==
  LET flag   == IF complete THEN ALL ELSE << >>
      path   == LOCATIONS \o location_id \o << "/" >> \o flag
      params == NewParams(self)
      gen    == _generate_url(self, path, params)
  IN  Done("summary", self,
           [location_id |-> location_id, complete |-> complete],
           path, params, gen, get(gen.url, << >>), response, Reply(response))

\* menu that asks a second time when the first answer is no 200.
menu_retrying(self, location_id, short, response) ==
  LET path   == LOCATIONS \o location_id \o << "/" >> \o MENUS
      start  == NewParams(self)
      params == IF short THEN SetItem(start, FORMAT, PyStr(SHORT)) ELSE start
      gen    == _generate_url(self, path, params)
      once   == get(gen.url, << >>)
      sent   == IF response.status_code = 200 THEN once ELSE once \o once
  IN  Done("menu", self,
           [location_id |-> location_id, short |-> short],
           path, params, gen, sent, response, Reply(response))

\* menu that adds format=short to the URL after the URL is signed.
menu_format_unsigned(self, location_id, short, response) ==
  LET path   == LOCATIONS \o location_id \o << "/" >> \o MENUS
      params == NewParams(self)
      gen    == _generate_url(self, path, params)
      url    == IF short
                  THEN gen.url \o << "&" >> \o FORMAT \o << "=" >> \o SHORT
                  ELSE gen.url
  IN  Done("menu", self,
           [location_id |-> location_id, short |-> short],
           path, params, gen, get(url, << >>), response, Reply(response))

menu(self, location_id, short, response) ==
  LET path   == LOCATIONS \o location_id \o << "/" >> \o MENUS
      start  == NewParams(self)
      params == IF short THEN SetItem(start, FORMAT, PyStr(SHORT)) ELSE start
      gen    == _generate_url(self, path, params)
  IN  Done("menu", self,
           [location_id |-> location_id, short |-> short],
           path, params, gen, get(gen.url, << >>), response, Reply(response))

photos(self, location_id, max_height, max_width, image_type, response) ==
  LET path   == LOCATIONS \o location_id \o << "/" >> \o PHOTOS
      p0     == NewParams(self)
      p1     == IF Truthy(max_height) THEN SetItem(p0, HEIGHT, max_height) ELSE p0
      p2     == IF Truthy(max_width) THEN SetItem(p1, WIDTH, max_width) ELSE p1
      params == IF Truthy(image_type)
                  THEN SetItem(p2, TYPE, PyStr(EnumValue(image_type))) ELSE p2
      gen    == _generate_url(self, path, params)
  IN  Done("photos", self,
           [location_id |-> location_id, max_height |-> max_height,
            max_width |-> max_width, image_type |-> image_type],
           path, params, gen, get(gen.url, << >>), response, Reply(response))

-----------------------------------------------------------------------------
(* The calls a caller makes.                                               *)

CallOf(op, self, args, response) ==
  [op |-> op, self |-> self, args |-> args, response |-> response]

\* Every call of the argument sets above, with every response.
AllCalls ==
  {CallOf("managed_locations", self, [business_id |-> b, cookie |-> c], r)
     : self \in Clients, b \in BusinessIds, c \in Cookies,
       r \in HierarchyResponses}
    \cup {CallOf("summary", self, [location_id |-> l, complete |-> f], r)
            : self \in Clients, l \in LocationIds, f \in BOOLEAN,
              r \in VendorResponses}
    \cup {CallOf("menu", self, [location_id |-> l, short |-> f], r)
            : self \in Clients, l \in LocationIds, f \in BOOLEAN,
              r \in VendorResponses}
    \cup {CallOf("photos", self,
                 [location_id |-> l, max_height |-> h, max_width |-> w,
                  image_type |-> t], r)
            : self \in Clients, l \in LocationIds, h \in Sizes, w \in Sizes,
              t \in ImageTypes, r \in VendorResponses}

\* The responses of the behaviours of several calls.
FewResponses ==
  {[status_code |-> 200, text |-> "{\"name\": \"Nobu\"}"],
   [status_code |-> 404, text |-> "{\"error\": \"unknown location\"}"],
   [status_code |-> 200, text |-> "<html>Bad Gateway</html>"],
   [status_code |-> 200,
    text |-> DumpsHierarchy([root_tier |-> Tier("tier", << >>,
                                             << Leaf("location", << 1 >>) >>)])]}

\* The calls of the behaviours of several calls: one location, and of the
\* filters of photos two combinations.
FewCalls ==
  {c \in AllCalls :
     /\ c.response \in FewResponses
     /\ c.op # "managed_locations" => c.args.location_id = << "n", "o", "b", "u" >>
     /\ c.op = "photos" =>
          \/ /\ c.args.max_height = PyInt(64)
             /\ c.args.max_width = PyNone
             /\ c.args.image_type = Member("LOGO")
          \/ /\ c.args.max_height = PyInt(0)
             /\ c.args.max_width = PyInt(64)
             /\ c.args.image_type = PyNone}

\* The watched calls: one of each operation.
Probes ==
  {CallOf("summary", 1, [location_id |-> << "n", "o", "b", "u" >>, complete |-> TRUE],
          [status_code |-> 200, text |-> "{\"name\": \"Nobu\"}"]),
   CallOf("menu", 2, [location_id |-> << "n", "o", "b", "u" >>, short |-> TRUE],
          [status_code |-> 404, text |-> "{\"error\": \"unknown location\"}"]),
   CallOf("photos", 1,
          [location_id |-> << "n", "o", "b", "u" >>, max_height |-> PyInt(64),
           max_width |-> PyNone, image_type |-> Member("LOGO")],
          [status_code |-> 200, text |-> "<html>Bad Gateway</html>"]),
   CallOf("managed_locations", 2,
          [business_id |-> << "4", "2" >>, cookie |-> << "s", "e", "s", "s", "i", "o", "n", "i", "d", "=", "1" >>],
          [status_code |-> 200,
           text |-> DumpsHierarchy([root_tier |-> Tier("tier", << >>,
                                      << Leaf("location", << 1 >>) >>)])])}

\* The calls of the behaviours with a watched call: the watched calls, and
\* two calls of the first client that sign other parameters than the
\* watched calls of that client do.
WatchedCalls ==
  Probes \cup
    {c \in FewCalls :
       /\ c.self = 1
       /\ c.response.status_code = 404
       /\ \/ c.op = "menu" /\ ~c.args.short
          \/ c.op = "photos" /\ c.args.max_height = PyInt(0)}

-----------------------------------------------------------------------------
(* The state machine.                                                      *)
(*                                                                         *)
(* clients holds the two client objects and ctor the arguments they were   *)
(* constructed with.  pending is the call a caller has made and that has   *)
(* not run yet: the operation, the client, the arguments, and the response *)
(* the server will give.  calls and requests count the public calls run    *)
(* and the HTTP requests sent; last is what the latest call did.  sigres   *)
(* is the latest result of _generate_signature called on its own.  probe   *)
(* is one call to watch for, and probeOut what the first such call sent    *)
(* and how it ended, with the number of other calls run since.             *)

Idle == [op |-> "idle"]

NoCall == [op |-> "none"]

NoSig == [set |-> FALSE]

NoProbe == [op |-> "none"]

Unseen == [set |-> FALSE]

Key(c) == CallOf(c.op, c.self, c.args, c.response)

Seen(c) ==
  [set |-> TRUE, at |-> calls + 1, others |-> 0, sent |-> c.sent,
   outcome |-> c.outcome]

\* The two clients have an id each, and any secrets.
Constructed ==
  {f \in [Clients -> {NewClient(i, k) : i \in ClientIds, k \in Secrets}] :
     f[1]._client_id # f[2]._client_id /\ f[1]._client_id = << "c", "1" >>}

InitWith(first, watched) ==
  /\ clients \in Constructed
  /\ ctor = clients
  /\ pending \in first
  /\ calls = 0
  /\ requests = 0
  /\ last = NoCall
  /\ sigres = NoSig
  /\ probe \in watched
  /\ probeOut = Unseen

\* A caller makes a call.
Begin ==
  /\ pending = Idle
  /\ calls < MaxCalls
  /\ pending' \in FewCalls
  /\ UNCHANGED << clients, ctor, calls, requests, last, sigres, probe, probeOut >>

\* A caller makes a call, in a behaviour with a watched call.
BeginWatched ==
  /\ pending = Idle
  /\ calls < MaxWatched
  /\ pending' \in WatchedCalls
  /\ UNCHANGED << clients, ctor, calls, requests, last, sigres, probe, probeOut >>

\* The pending call runs to its end, and leaves what it did in last.
Invoke(c) ==
  /\ last' = c
  /\ pending' = Idle
  /\ calls' = calls + 1
  /\ requests' = requests + Len(c.sent)
  /\ probeOut' = IF Key(c) = probe /\ ~probeOut.set THEN Seen(c)
                 ELSE IF probeOut.set /\ Key(c) # probe
                   THEN [probeOut EXCEPT !.others = @ + 1]
                 ELSE probeOut
  /\ UNCHANGED << clients, ctor, sigres, probe >>

ManagedLocations ==
  /\ pending.op = "managed_locations"
  /\ Invoke(managed_locations(pending.self, pending.args.business_id,
                              pending.args.cookie, pending.response))

Summary ==
  /\ pending.op = "summary"
  /\ Invoke(summary(pending.self, pending.args.location_id,
                    pending.args.complete, pending.response))

Menu ==
  /\ pending.op = "menu"
  /\ Invoke(menu(pending.self, pending.args.location_id, pending.args.short,
                 pending.response))

Photos ==
  /\ pending.op = "photos"
  /\ Invoke(photos(pending.self, pending.args.location_id,
                   pending.args.max_height, pending.args.max_width,
                   pending.args.image_type, pending.response))

\* _generate_signature called on its own.
GenerateSignature ==
  \E self \in Clients, uri \in SigUris :
    /\ sigres' = [set |-> TRUE, self |-> self, uri |-> uri,
                  value |-> _generate_signature(self, uri)]
    /\ UNCHANGED << clients, ctor, pending, calls, requests, last, probe,
                    probeOut >>

\* Behaviours of up to MaxCalls calls.
Init == InitWith({Idle}, {NoProbe})

Next == Begin \/ ManagedLocations \/ Summary \/ Menu \/ Photos

Spec == Init /\ [][Next]_vars

\* Behaviours of one call, over all the arguments and responses.
InitOne == InitWith(AllCalls, {NoProbe})

NextOne == ManagedLocations \/ Summary \/ Menu \/ Photos

SpecOne == InitOne /\ [][NextOne]_vars

\* Behaviours of up to MaxCalls calls with _generate_signature called on its
\* own in between.
NextSig == GenerateSignature \/ Begin \/ ManagedLocations \/ Summary \/ Menu \/ Photos

SpecSig == Init /\ [][NextSig]_vars

\* Behaviours of up to MaxWatched calls, one call being watched.
InitFrame == InitWith({Idle}, Probes)

NextFrame == BeginWatched \/ ManagedLocations \/ Summary \/ Menu \/ Photos

SpecFrame == InitFrame /\ [][NextFrame]_vars

-----------------------------------------------------------------------------
(* Reading a URL back: what the server finds in the query it is sent.      *)

StartsWith(s, prefix) ==
  /\ Len(prefix) <= Len(s)
  /\ SubSeq(s, 1, Len(prefix)) = prefix

Drop(s, n) == SubSeq(s, n + 1, Len(s))

RECURSIVE Split(_, _)
\* s.split(sep) for a separator of one character.
Split(s, sep) ==
  IF \A i \in 1..Len(s) : s[i] # sep THEN << s >>
  ELSE LET at == CHOOSE i \in 1..Len(s) :
                   /\ s[i] = sep
                   /\ \A j \in 1..(i - 1) : s[j] # sep
       IN  << SubSeq(s, 1, at - 1) >> \o Split(Drop(s, at), sep)

HexValue(ch) == (CHOOSE i \in 1..Len(HexDigits) : HexDigits[i] = ch) - 1

\* unquote_plus(s): "+" is a space and "%XX" the character of code XX.
unquote_plus(s) ==
  LET starts == {i \in 1..Len(s) :
                   /\ ~(i > 1 /\ s[i - 1] = "%")
                   /\ ~(i > 2 /\ s[i - 2] = "%")}
      nth(k) == CHOOSE i \in starts : Cardinality({j \in starts : j < i}) = k - 1
      char(i) == IF s[i] = "%"
                   THEN Chr(16 * HexValue(s[i + 1]) + HexValue(s[i + 2]))
                 ELSE IF s[i] = "+" THEN " "
                 ELSE s[i]
  IN  [k \in 1..Cardinality(starts) |-> char(nth(k))]

\* parse_qsl(query): the <<name, value>> pairs of a query, in its order.
parse_qsl(query) ==
  LET items == Split(query, "&")
  IN  [i \in 1..Len(items) |->
         LET kv == Split(items[i], "=")
         IN  << unquote_plus(kv[1]), unquote_plus(kv[2]) >>]

SignedOps == {"summary", "menu", "photos"}

\* The URL the latest call requested.
RequestedUrl == last.sent[1].url

\* The query of the URL the latest call requested, and of the string it
\* signed: what follows the path and the "?".
RequestedQuery == Drop(RequestedUrl, Len(_HOST) + Len(last.path) + 1)

SignedQuery == Drop(last.uri, Len(last.path) + 1)

-----------------------------------------------------------------------------
(* The hierarchy read by places: what managed_locations is to return.      *)

Kids(n) == DictGet(n, "nodes", << >>)

IsLocation(n) == DictGet(n, "node_type", "None") = "location"

RECURSIVE NodeAt(_, _)
\* The node at place p below n.
NodeAt(n, p) == IF p = << >> THEN n ELSE NodeAt(Kids(n)[Head(p)], Tail(p))

RECURSIVE Places(_)
\* The places of all the nodes of the tree n.
Places(n) ==
  {<< >>} \cup UNION {{<< i >> \o p : p \in Places(Kids(n)[i])}
                      : i \in 1..Len(Kids(n))}

\* The places of the locations with no location above them.
Outermost(root) ==
  {p \in Places(root) :
     /\ IsLocation(NodeAt(root, p))
     /\ \A k \in 0..(Len(p) - 1) : ~IsLocation(NodeAt(root, SubSeq(p, 1, k)))}

\* p is left of q: at the first index where they differ, p has the smaller
\* child index.
LeftOf(p, q) ==
  \E k \in 1..Len(p) :
    /\ k <= Len(q)
    /\ p[k] < q[k]
    /\ \A j \in 1..(k - 1) : p[j] = q[j]

\* The nodes at the places S, from left to right.
LeftToRight(root, S) ==
  [k \in 1..Cardinality(S) |->
     NodeAt(root, CHOOSE p \in S : Cardinality({q \in S : LeftOf(q, p)}) = k - 1)]

-----------------------------------------------------------------------------
(* The claims.                                                             *)

\* C1, as claimed: summary, menu and photos raise a ValueError of exactly
\* the body's text when the status is not 200, and with status 200 raise
\* nothing and return the decoded JSON of the body.
C1_AsClaimed ==
  last.op \in SignedOps =>
    IF last.response.status_code # 200
      THEN last.outcome = Raise("ValueError", last.response.text)
      ELSE /\ last.outcome.kind = "return"
           /\ IsJson(last.response.text)
           /\ last.outcome.value = loads(last.response.text)

\* C1, amended: summary, menu and photos raise a ValueError of exactly the
\* body's text when the status is not 200; with status 200 and a body that
\* is JSON they raise nothing and return the decoded body; with status 200
\* and a body that is no JSON the decoder's error leaves the call.
C1_StatusDecidesOutcome ==
  last.op \in SignedOps =>
    /\ last.response.status_code # 200 =>
         last.outcome = Raise("ValueError", last.response.text)
    /\ last.response.status_code = 200 /\ IsJson(last.response.text) =>
         last.outcome = Return(loads(last.response.text))
    /\ last.response.status_code = 200 /\ ~IsJson(last.response.text) =>
         /\ last.outcome.kind = "raise"
         /\ last.outcome.exc = "JSONDecodeError"

\* C1's case: photos got a 404 and raised a ValueError of the body's text.
C1_Witness ==
  /\ last.op = "photos"
  /\ last.response.status_code = 404
  /\ last.outcome.kind = "raise"
  /\ last.outcome.exc = "ValueError"
  /\ last.outcome.message = "{\"error\": \"unknown location\"}"

\* C2: the signature is a function of the secret and the uri: what
\* _generate_signature returned for a uri is what it returns for that uri
\* now, whatever was called since, on that client and on every client with
\* the same secret whatever its id; and a public call that signs the same
\* uri with the same secret puts the same signature in its parameters.
C2_SignatureDeterministic ==
  sigres.set =>
    /\ \A c \in Clients :
         clients[c]._client_secret = clients[sigres.self]._client_secret =>
           _generate_signature(c, sigres.uri) = sigres.value
    /\ ( /\ last.op \in SignedOps
         /\ last.uri = sigres.uri
         /\ clients[last.self]._client_secret
              = clients[sigres.self]._client_secret )
       => GetItem(last.params, SIGNATURE) = PyBytes(sigres.value)

\* C2's case: two clients of different ids share a secret, one of them
\* signed a uri on its own, and public calls ran after it, the latest one
\* signing the same uri.
C2_Witness ==
  /\ sigres.set
  /\ clients[1]._client_secret = clients[2]._client_secret
  /\ clients[1]._client_id # clients[2]._client_id
  /\ sigres.self = 2
  /\ calls = MaxCalls
  /\ last.op = "summary"
  /\ last.self = 1
  /\ last.uri = sigres.uri

\* C3: the URL requested is the host, the path, "?" and the parameters
\* _generate_url was given, in their order and with their values, followed
\* by one last parameter, signature; the string signed is the path, "?" and
\* the requested query without that last parameter; and the signature is
\* the base64 of the HMAC of that string under the client's secret.
C3_SignedIsRequestedQuery ==
  last.op \in SignedOps =>
    LET items  == Split(RequestedQuery, "&")
        n      == Len(items)
        pairs  == parse_qsl(RequestedQuery)
        secret == ctor[last.self]._client_secret
    IN  /\ StartsWith(RequestedUrl, _HOST \o last.path \o << "?" >>)
        /\ n = Len(last.params_in) + 1
        /\ \A i \in 1..(n - 1) :
             /\ pairs[i][1] = last.params_in[i][1]
             /\ pairs[i][2] = Str(last.params_in[i][2])
             /\ pairs[i][1] # SIGNATURE
        /\ pairs[n][1] = SIGNATURE
        /\ last.uri = last.path \o << "?" >> \o Join(<< "&" >>, SubSeq(items, 1, n - 1))
        /\ Encode(pairs[n][2])
             = b64encode(HmacSha1Digest(Encode(secret), Encode(last.uri)))

\* C3's case: photos of the client whose id needs quoting, with all three
\* filters, so that four parameters are signed.
C3_Witness ==
  /\ last.op = "photos"
  /\ last.self = 2
  /\ Len(last.params_in) = 4
  /\ Len(parse_qsl(RequestedQuery)) = 5

\* C4, as claimed: managed_locations raises a ValueError of the body's text
\* whenever the hierarchy endpoint answers with a status that is not 200.
C4_ManagedLocationsRaisesOnNon200 ==
  (last.op = "managed_locations" /\ last.response.status_code # 200) =>
    last.outcome = Raise("ValueError", last.response.text)

\* C5: every public call sends exactly one request, a GET, and ends by
\* returning or raising, also when the answer is no 200; no request is sent
\* but by a call, so the requests sent are as many as the calls run.
C5_OneRequestPerCall ==
  /\ requests = calls
  /\ last.op # "none" =>
       /\ Len(last.sent) = 1
       /\ last.sent[1].method = "GET"
       /\ last.outcome.kind \in {"return", "raise"}

\* C5's case: MaxCalls calls ran, the latest a menu call that got a 404 and
\* raised.
C5_Witness ==
  /\ calls = MaxCalls
  /\ requests = MaxCalls
  /\ last.op = "menu"
  /\ last.response.status_code = 404
  /\ last.outcome.kind = "raise"

\* C6: the clients keep the id and the secret they were constructed with;
\* the dict a call gives to _generate_url holds no signature of an earlier
\* call; and a call sends and ends as the first call of the same operation,
\* client, arguments and response did, whatever ran in between.
C6_NoSharedState ==
  /\ clients = ctor
  /\ last.op \in SignedOps => ~HasKey(last.params_in, SIGNATURE)
  /\ (probeOut.set /\ last.op # "none" /\ Key(last) = probe) =>
       /\ last.sent = probeOut.sent
       /\ last.outcome = probeOut.outcome

\* C6's case: the watched call ran, then a call that signs other
\* parameters, then the watched call again.
C6_Witness ==
  /\ probeOut.set
  /\ probeOut.at = 1
  /\ probeOut.others = 1
  /\ calls = 3
  /\ last.op \in SignedOps
  /\ Key(last) = probe

\* C7, as claimed: photos signs height exactly when max_height is not None,
\* width exactly when max_width is not None and type exactly when
\* image_type is not None, each with the value supplied, and with all three
\* None it signs the client parameter alone.
C7_FilterSentIffSupplied ==
  last.op = "photos" =>
    LET q        == parse_qsl(SignedQuery)
        has(k)   == \E i \in 1..Len(q) : q[i][1] = k
        of(k)    == q[CHOOSE i \in 1..Len(q) : q[i][1] = k][2]
        a        == last.args
    IN  /\ has(HEIGHT) <=> a.max_height # PyNone
        /\ has(HEIGHT) => of(HEIGHT) = Str(a.max_height)
        /\ has(WIDTH) <=> a.max_width # PyNone
        /\ has(WIDTH) => of(WIDTH) = Str(a.max_width)
        /\ has(TYPE) <=> a.image_type # PyNone
        /\ has(TYPE) => of(TYPE) = EnumValue(a.image_type)
        /\ (a.max_height = PyNone /\ a.max_width = PyNone /\ a.image_type = PyNone)
             => q = << << CLIENT, ctor[last.self]._client_id >> >>

\* C8: summary requests and signs the path /locations/<id>/all/ when
\* complete is true and /locations/<id>/ when it is false, and the query it
\* signs holds the client parameter alone, set to the client's id.
C8_SummaryPath ==
  last.op = "summary" =>
    LET path == LOCATIONS \o last.args.location_id
                  \o (IF last.args.complete
                        THEN << "/", "a", "l", "l", "/" >> ELSE << "/" >>)
    IN  /\ StartsWith(RequestedUrl, _HOST \o path \o << "?", "c" >>)
        /\ StartsWith(last.uri, path \o << "?", "c" >>)
        /\ Len(last.uri) = Len(path) + 1 + Len(SignedQuery)
        /\ parse_qsl(SignedQuery) = << << CLIENT, ctor[last.self]._client_id >> >>

\* C8's case: a complete summary by the client whose id needs quoting.
C8_Witness ==
  /\ last.op = "summary"
  /\ last.args.complete
  /\ last.self = 2
  /\ last.outcome.kind = "return"

\* C9: menu requests and signs the path /locations/<id>/menus/, and the
\* query it signs holds client and then format=short when short is true,
\* and client alone when short is false.
C9_MenuFormat ==
  last.op = "menu" =>
    LET path == LOCATIONS \o last.args.location_id
                  \o << "/", "m", "e", "n", "u", "s", "/" >>
        id   == ctor[last.self]._client_id
    IN  /\ StartsWith(RequestedUrl, _HOST \o path \o << "?", "c" >>)
        /\ StartsWith(last.uri, path \o << "?", "c" >>)
        /\ Len(last.uri) = Len(path) + 1 + Len(SignedQuery)
        /\ parse_qsl(SignedQuery)
             = IF last.args.short
                 THEN << << CLIENT, id >>, << FORMAT, SHORT >> >>
                 ELSE << << CLIENT, id >> >>
        /\ SubSeq(parse_qsl(RequestedQuery), 1, Len(parse_qsl(SignedQuery)))
             = parse_qsl(SignedQuery)
        /\ Len(parse_qsl(RequestedQuery)) = Len(parse_qsl(SignedQuery)) + 1

\* C9's case: a short menu.
C9_Witness ==
  /\ last.op = "menu"
  /\ last.args.short
  /\ Len(parse_qsl(SignedQuery)) = 2

\* C10: for a hierarchy document, managed_locations returns the locations
\* that have no location above them, each as it is in the document, from
\* left to right in depth-first order; nothing below a location is
\* returned, and a document without root_tier gives the empty list.
C10_OutermostLocations ==
  (last.op = "managed_locations" /\ IsJson(last.response.text)) =>
    LET doc  == loads(last.response.text)
        root == DictGet(doc, "root_tier", EmptyDict)
    IN  /\ last.outcome = Return(LeftToRight(root, Outermost(root)))
        /\ "root_tier" \notin DOMAIN doc => last.outcome = Return(<< >>)

\* C10's case: a root with a tier and, right of it, a location; the tier
\* holds a location that has a location of its own.  The deeper location
\* comes first, and the location below it is not returned.
C10_Witness ==
  /\ last.op = "managed_locations"
  /\ last.outcome.kind = "return"
  /\ Len(last.outcome.value) = 2
  /\ last.outcome.value[1].id = << 1, 1 >>
  /\ Len(Kids(last.outcome.value[1])) = 1
  /\ IsLocation(Kids(last.outcome.value[1])[1])
  /\ last.outcome.value[2].id = << 2 >>

=============================================================================
